---- MODULE Spec2Model ----
\* State-machine model of cmd/regres/main.go: run() and the helpers it calls
\* (withTouchedGLES, build, trace, captureStats), with the git working tree,
\* the watched file gles.api and the trace file as the environment.
EXTENDS Integers, Sequences, FiniteSets, TLC

\* ---------------------------------------------------------------- bounds
MaxCount == 3       \* largest value of the -count flag explored
HistLen == 4        \* number of commits in the repository history
MaxRnd == 1         \* r.Int() yields 0..MaxRnd
MaxLines == 1       \* gles.api holds at most MaxLines lines (SpecTouch)
ShaLen == 7         \* length of the modelled SHA strings, one digit past the cut

\* ---------------------------------------------------------------- constants
ShortLen == 6       \* cl.SHA.String()[:6]

NoErr == "nil"
BranchNames == {"master", "dev"}
Pkgs == {"", "mygame"}
Lines == {"a", "b"}
Modes == {420, 292, 128, 1005}  \* 0644, 0444, 0200, 01755
Artifacts ==
    {"libgapii", "libVkLayer_VirtualSwapchain", "gapid-aarch64.apk",
     "gapid-armeabi.apk", "gapid-x86.apk", "gapid", "gapir", "gapis", "gapit"}

\* ---------------------------------------------------------------- state
VARIABLES
    incBuild,   \* flag -inc
    pkg,        \* flag -pkg
    atSHA,      \* flag -at: HeadRef (the empty default) or a revision
    count,      \* flag -count
    clean,      \* git status of the working tree
    head,       \* what the working tree has checked out: a branch or a SHA
    gles,       \* the watched file gles.api: [content, mode]
    missing,    \* artifacts absent from bazel-bin/pkg after a build
    traceFile,  \* whether gapid-regres.gfxtrace exists
    pc,         \* position in run()
    err,        \* run()'s return value
    branch,     \* run's local: the branch read at start
    cls,        \* run's local: the revision listing, newest first
    n,          \* the range index of the loop
    i,          \* run's local i == len(cls) - 1 - n (0-based index into cls)
    r,          \* run's local: the record of the current revision
    res,        \* run's local: the result sequence
    defers,     \* run's deferred calls, last registered first
    stdout,     \* what has reached standard output
    wbuf,       \* cells buffered in the tabwriter
    fi,         \* withTouchedGLES's local: the stat'ed mode
    glesAPI,    \* withTouchedGLES's local: the bytes read
    cb,         \* the callback handed to withTouchedGLES
    touchErr,   \* withTouchedGLES's return value
    gles0,      \* history: gles.api when withTouchedGLES was entered
    head0,      \* history: what was checked out when run() started
    checkouts,  \* history: every checkout call issued, in order
    nBuilds,    \* history: number of bazel invocations
    listed,     \* history: whether LogFrom was called
    events,     \* history: <<i, what>> per loop iteration
    resIdx      \* history: the loop index i that appended each record of res

vars ==
    <<incBuild, pkg, atSHA, count, clean, head, gles, missing, traceFile, pc,
      err, branch, cls, n, i, r, res, defers, stdout, wbuf, fi, glesAPI, cb,
      touchErr, gles0, head0, checkouts, nBuilds, listed, events, resIdx>>

flags == <<incBuild, pkg, atSHA, count, head0>>
touchLocals == <<fi, glesAPI, cb, touchErr, gles0>>
report == <<stdout, wbuf>>

\* ---------------------------------------------------------------- git
\* The j-th commit of the history, as the string SHA.String() gives: the
\* commits 2k and 2k+1 agree on their first ShortLen characters.
Sha(j) == [p \in 1..ShaLen |->
             IF p < ShortLen THEN 0 ELSE IF p = ShortLen THEN j \div 2 ELSE j % 2]

\* The repository's log, newest first.
History == [j \in 1..HistLen |-> Sha(j)]

\* What a checkout, the -at flag or HEAD can name: a branch, a revision, or
\* the flag's empty default.
BranchRef(b) == <<"branch", b>>
ShaRef(sha) == <<"sha", sha>>
HeadRef == <<"default", "">>
Branches == {BranchRef(b) : b \in BranchNames}

\* cl.SHA.String()[:6]
Short(sha) == SubSeq(sha, 1, ShortLen)

\* g.LogFrom(ctx, at, count): the count most recent commits reachable from at
\* ("" is HEAD), newest first; fewer when the history ends.
StartOf(at) == IF at = HeadRef THEN 1 ELSE CHOOSE j \in 1..HistLen : ShaRef(History[j]) = at
Min(a, b) == IF a < b THEN a ELSE b
LogFromResult(at, c) == SubSeq(History, StartOf(at), Min(HistLen, StartOf(at) + c - 1))

\* The committed bytes of gles.api at a checked-out branch or revision.
TipOf(h) == IF h[1] = "branch" THEN History[1] ELSE h[2]
ContentAt(h) == <<TipOf(h)>>

\* ---------------------------------------------------------------- files
\* fi.Mode().Perm(): the bits of 0777. The owner may read with bit 0400 set
\* and write with bit 0200 set.
Perm(m) == m % (511 + 1)
Readable(m) == (m \div 256) % 2 = 1
Writable(m) == (m \div 128) % 2 = 1

\* ioutil.WriteFile on a file that exists: O_WRONLY|O_CREATE|O_TRUNC, the perm
\* argument is used only on creation; the open fails on a read-only file.
WriteFile(f, data, perm) ==
    IF Writable(f.mode) THEN [f EXCEPT !.content = data] ELSE f

\* fmt.Sprintf("%v\ncmd void fake_cmd_%d() {}\n", string(glesAPI), x)
ModGlesAPI(data, x) == data \o <<"", <<"fake_cmd", x>>>>

\* ---------------------------------------------------------------- records
ZeroStats ==
    [SHA |-> <<>>, BuildTime |-> 0, IncrementalBuildTime |-> 0,
     FileSizes |-> [f \in Artifacts |-> 0],
     CaptureStats |-> [Frames |-> 0, DrawCalls |-> 0, Commands |-> 0]]

\* stats{SHA: sha}
NewStats(sha) == [ZeroStats EXCEPT !.SHA = sha]

\* fi.Size() of an artifact that exists
SizeOf(f) == 1

\* The stat loop over the nine artifact paths.
GatherSizes(rec, absent) ==
    [rec EXCEPT !.FileSizes = [f \in Artifacts |-> IF f \in absent THEN 0 ELSE SizeOf(f)]]

\* captureStats' scan of stdout: matches is the sequence of regexp matches
\* <<word, atoi, value>>, atoi being "ok" or, when strconv.Atoi rejects the
\* digits, "range".
RECURSIVE Scan(_, _)
Scan(matches, acc) ==
    IF matches = <<>> THEN acc
    ELSE LET m == Head(matches)
             next == IF m[2] # "ok" THEN acc
                     ELSE IF m[1] = "Frames" THEN [acc EXCEPT !.Frames = m[3]]
                     ELSE IF m[1] = "Draws" THEN [acc EXCEPT !.DrawCalls = m[3]]
                     ELSE IF m[1] = "Commands" THEN [acc EXCEPT !.Commands = m[3]]
                     ELSE acc
         IN Scan(Tail(matches), next)

ZeroCounts == [Frames |-> 0, DrawCalls |-> 0, Commands |-> 0]

\* Mutant of captureStats: the failure of cmd.Call is returned as an error.
captureStats_Propagates(ok, matches) ==
    IF ~ok THEN [counts |-> ZeroCounts, err |-> "stats"]
    ELSE [counts |-> Scan(matches, ZeroCounts), err |-> NoErr]

\* captureStats(ctx, file): ok is the outcome of cmd.Call, matches its output.
captureStats(ok, matches) ==
    IF ~ok THEN [counts |-> ZeroCounts, err |-> NoErr]
    ELSE [counts |-> Scan(matches, ZeroCounts), err |-> NoErr]

\* Outputs of "gapit stats" the environment produces.
StatsOutputs ==
    {<<>>,
     <<<<"Frames", "ok", 12>>, <<"Draws", "ok", 5>>, <<"Commands", "ok", 40>>>>,
     <<<<"Foo", "ok", 9>>, <<"Frames", "range", 0>>>>}

\* Wall-clock seconds a bazel invocation can take.
Durations == {2}

\* ---------------------------------------------------------------- report
Header ==
    <<"sha">> \o (IF incBuild THEN <<"incremental_build_time">> ELSE <<>>)
    \o (IF pkg # "" THEN <<"commands", "draws", "frames">> ELSE <<>>)
    \o <<"lib_gapii", "lib_swapchain", "aarch64.apk", "armeabi64.apk", "x86.apk",
         "gapid", "gapir", "gapis", "gapit">>

Row(rec) ==
    <<rec.SHA>> \o (IF incBuild THEN <<rec.IncrementalBuildTime>> ELSE <<>>)
    \o (IF pkg # ""
        THEN <<rec.CaptureStats.Commands, rec.CaptureStats.DrawCalls, rec.CaptureStats.Frames>>
        ELSE <<>>)
    \o <<rec.FileSizes["libgapii"], rec.FileSizes["libVkLayer_VirtualSwapchain"],
         rec.FileSizes["gapid-aarch64.apk"], rec.FileSizes["gapid-armeabi.apk"],
         rec.FileSizes["gapid-x86.apk"], rec.FileSizes["gapid"], rec.FileSizes["gapir"],
         rec.FileSizes["gapis"], rec.FileSizes["gapit"]>>

\* ---------------------------------------------------------------- Init
InitCommon ==
    /\ head \in Branches
    /\ head0 = head
    /\ missing = {"gapid-x86.apk"}
    /\ traceFile = FALSE
    /\ err = NoErr
    /\ branch = HeadRef
    /\ cls = <<>>
    /\ n = 0
    /\ i = 0
    /\ r = ZeroStats
    /\ res = <<>>
    /\ defers = <<>>
    /\ stdout = <<>>
    /\ wbuf = <<>>
    /\ fi = 0
    /\ glesAPI = <<>>
    /\ touchErr = NoErr
    /\ checkouts = <<>>
    /\ nBuilds = 0
    /\ listed = FALSE
    /\ events = {}
    /\ resIdx = <<>>

Init ==
    /\ InitCommon
    /\ incBuild \in BOOLEAN
    /\ pkg \in Pkgs
    /\ atSHA \in {HeadRef, ShaRef(History[2])}
    /\ count \in 1..MaxCount
    /\ clean \in BOOLEAN
    /\ gles = [content |-> ContentAt(head), mode |-> 420]
    /\ gles0 = gles
    /\ cb = "build"
    /\ pc = "new"

\* ---------------------------------------------------------------- run
\* return err
Return(e) == err' = e /\ pc' = "exit"

\* continue
Continue == n' = n + 1 /\ pc' = "loop"

Event(what) == events' = events \cup {<<i, what>>}

\* g, err := git.New(*root)
GitNew ==
    /\ pc = "new"
    /\ \E ok \in BOOLEAN :
         IF ok THEN pc' = "status" /\ err' = err ELSE Return("git.New")
    /\ UNCHANGED <<flags, clean, head, gles, missing, traceFile, branch, cls, n, i, r,
                   res, defers, report, touchLocals, checkouts, nBuilds, listed,
                   events, resIdx>>

\* Mutant of StatusAborts: the cleanliness check is not enforced.
StatusAborts_Never(isClean) == FALSE

\* if !s.Clean() { return fmt.Errorf("Local changes found. ...") }
StatusAborts(isClean) == ~isClean

\* s, err := g.Status(ctx); if !s.Clean() { return fmt.Errorf(...) }
Status ==
    /\ pc = "status"
    /\ \E ok \in BOOLEAN :
         IF ~ok THEN Return("git.Status")
         ELSE IF StatusAborts(clean) THEN Return("Local changes found")
         ELSE pc' = "branch" /\ err' = err
    /\ UNCHANGED <<flags, clean, head, gles, missing, traceFile, branch, cls, n, i, r,
                   res, defers, report, touchLocals, checkouts, nBuilds, listed,
                   events, resIdx>>

\* Mutant of DeferCheckoutBranch: the restoring checkout is never registered.
DeferCheckoutBranch_Missing(b, stack) == stack

\* defer g.CheckoutBranch(ctx, branch)
DeferCheckoutBranch(b, stack) == <<[op |-> "CheckoutBranch", arg |-> b]>> \o stack

\* branch, err := g.CurrentBranch(ctx); defer g.CheckoutBranch(ctx, branch)
CurrentBranch ==
    /\ pc = "branch"
    /\ \E ok \in BOOLEAN :
         IF ok
         THEN /\ branch' = head
              /\ defers' = DeferCheckoutBranch(head, defers)
              /\ pc' = "log"
              /\ err' = err
         ELSE Return("git.CurrentBranch") /\ UNCHANGED <<branch, defers>>
    /\ UNCHANGED <<flags, clean, head, gles, missing, traceFile, cls, n, i, r, res,
                   report, touchLocals, checkouts, nBuilds, listed, events, resIdx>>

\* cls, err := g.LogFrom(ctx, *atSHA, *count)
LogFrom ==
    /\ pc = "log"
    /\ listed' = TRUE
    /\ \E ok \in BOOLEAN :
         IF ok
         THEN cls' = LogFromResult(atSHA, count) /\ n' = 0 /\ pc' = "loop" /\ err' = err
         ELSE Return("git.LogFrom") /\ UNCHANGED <<cls, n>>
    /\ UNCHANGED <<flags, clean, head, gles, missing, traceFile, branch, i, r, res,
                   defers, report, touchLocals, checkouts, nBuilds, events, resIdx>>

\* Mutant of RevIndex: the listing is walked in the order it was returned.
RevIndex_Forward(len, k) == k

\* i := len(cls) - 1 - i
RevIndex(len, k) == len - 1 - k

\* for i := range cls { i := len(cls) - 1 - i; cl := cls[i]; r := stats{SHA: sha}
LoopHead ==
    /\ pc = "loop"
    /\ IF n < Len(cls)
       THEN /\ i' = RevIndex(Len(cls), n)
            /\ r' = NewStats(Short(cls[RevIndex(Len(cls), n) + 1]))
            /\ pc' = "checkout"
       ELSE pc' = "report" /\ UNCHANGED <<i, r>>
    /\ UNCHANGED <<flags, clean, head, gles, missing, traceFile, err, branch, cls, n,
                   res, defers, report, touchLocals, checkouts, nBuilds, listed,
                   events, resIdx>>

\* if err := g.Checkout(ctx, cl.SHA); err != nil { return err }
Checkout ==
    /\ pc = "checkout"
    /\ checkouts' = Append(checkouts, ShaRef(cls[i + 1]))
    /\ \E ok \in BOOLEAN :
         IF ok
         THEN /\ head' = ShaRef(cls[i + 1])
              /\ gles' = [gles EXCEPT !.content = ContentAt(ShaRef(cls[i + 1]))]
              /\ pc' = "build"
              /\ err' = err
         ELSE Return("git.Checkout") /\ UNCHANGED <<head, gles>>
    /\ UNCHANGED <<flags, clean, missing, traceFile, branch, cls, n, i, r, res, defers,
                   report, touchLocals, nBuilds, listed, events, resIdx>>

\* Mutant of BuildSkips: a failed build is not noticed.
BuildSkips_Never(ok) == FALSE

\* if err != nil { continue } after build(ctx)
BuildSkips(ok) == ~ok

\* _, err := build(ctx); if err != nil { continue }
Build ==
    /\ pc = "build"
    /\ nBuilds' = nBuilds + 1
    /\ \E ok \in BOOLEAN :
         /\ Event(IF ok THEN "buildOK" ELSE "buildFailed")
         /\ IF BuildSkips(ok) THEN Continue ELSE pc' = "sizes" /\ n' = n
    /\ UNCHANGED <<flags, clean, head, gles, missing, traceFile, err, branch, cls, i, r,
                   res, defers, report, touchLocals, checkouts, listed, resIdx>>

\* the loop over the nine artifact paths
Sizes ==
    /\ pc = "sizes"
    /\ r' = GatherSizes(r, missing)
    /\ pc' = IF pkg # "" THEN "trace" ELSE "inc"
    /\ UNCHANGED <<flags, clean, head, gles, missing, traceFile, err, branch, cls, n, i,
                   res, defers, report, touchLocals, checkouts, nBuilds, listed,
                   events, resIdx>>

\* Mutant of TraceSkips: a failed capture is logged but the revision goes on.
TraceSkips_Never(ok) == FALSE

\* if err != nil { log.W(...); continue } after trace(ctx)
TraceSkips(ok) == ~ok

\* file, err := trace(ctx); on failure trace removes the file; defer os.Remove(file)
Trace ==
    /\ pc = "trace"
    /\ \E ok \in BOOLEAN :
         /\ Event(IF ok THEN "traceOK" ELSE "traceFailed")
         /\ traceFile' = ok
         /\ IF TraceSkips(ok)
            THEN Continue /\ defers' = defers
            ELSE /\ defers' = <<[op |-> "Remove", arg |-> HeadRef]>> \o defers
                 /\ pc' = "stats"
                 /\ n' = n
    /\ UNCHANGED <<flags, clean, head, gles, missing, err, branch, cls, i, r, res,
                   report, touchLocals, checkouts, nBuilds, listed, resIdx>>

\* frames, draws, cmds, err := captureStats(ctx, file); if err != nil { continue }
CaptureStats ==
    /\ pc = "stats"
    /\ \E ok \in BOOLEAN, matches \in StatsOutputs :
         LET got == captureStats(ok, matches) IN
         /\ Event(IF ok THEN "statsOK" ELSE "statsFailed")
         /\ IF got.err # NoErr
            THEN Continue /\ r' = r
            ELSE /\ r' = [r EXCEPT !.CaptureStats = got.counts]
                 /\ pc' = "inc"
                 /\ n' = n
    /\ UNCHANGED <<flags, clean, head, gles, missing, traceFile, err, branch, cls, i,
                   res, defers, report, touchLocals, checkouts, nBuilds, listed, resIdx>>

\* if *incBuild { withTouchedGLES(...) }
Inc ==
    /\ pc = "inc"
    /\ pc' = IF incBuild THEN "touchStat" ELSE "append"
    /\ UNCHANGED <<flags, clean, head, gles, missing, traceFile, err, branch, cls, n, i,
                   r, res, defers, report, touchLocals, checkouts, nBuilds, listed,
                   events, resIdx>>

\* ---------------------------------------------------------------- withTouchedGLES
\* fi, err := os.Stat(glesAPIPath); if err != nil { return err }
TouchStat ==
    /\ pc = "touchStat"
    /\ gles0' = gles
    /\ \E ok \in BOOLEAN :
         IF ok
         THEN fi' = gles.mode /\ pc' = "touchRead" /\ touchErr' = NoErr /\ events' = events
         ELSE fi' = fi /\ pc' = "touchRet" /\ touchErr' = "stat" /\ Event("perturbFailed")
    /\ UNCHANGED <<flags, clean, head, gles, missing, traceFile, err, branch, cls, n, i,
                   r, res, defers, report, glesAPI, cb, checkouts, nBuilds, listed,
                   resIdx>>

\* glesAPI, err := ioutil.ReadFile(glesAPIPath); if err != nil { return err }
TouchRead ==
    /\ pc = "touchRead"
    /\ \E ok \in BOOLEAN :
         IF ok /\ Readable(gles.mode)
         THEN /\ glesAPI' = gles.content
              /\ pc' = "touchWrite"
              /\ touchErr' = NoErr
              /\ events' = events
         ELSE /\ glesAPI' = glesAPI
              /\ pc' = "touchRet"
              /\ touchErr' = "read"
              /\ Event("perturbFailed")
    /\ UNCHANGED <<flags, clean, head, gles, missing, traceFile, err, branch, cls, n, i,
                   r, res, defers, report, fi, cb, gles0, checkouts, nBuilds, listed,
                   resIdx>>

\* ioutil.WriteFile(glesAPIPath, modGlesAPI, fi.Mode().Perm()), then f() is entered
TouchWrite ==
    /\ pc = "touchWrite"
    /\ \E x \in 0..MaxRnd : gles' = WriteFile(gles, ModGlesAPI(glesAPI, x), Perm(fi))
    /\ pc' = "touchCall"
    /\ UNCHANGED <<flags, clean, head, missing, traceFile, err, branch, cls, n, i, r,
                   res, defers, report, touchLocals, checkouts, nBuilds, listed,
                   events, resIdx>>

\* Mutant of RestoreGLES: the restoring write is not deferred, it is skipped
\* when f returns an error.
RestoreGLES_OnSuccess(f, data, perm, result) ==
    IF result = NoErr THEN WriteFile(f, data, perm) ELSE f

\* Mutant of RestoreGLES: the file is never written back.
RestoreGLES_Skipped(f, data, perm, result) == f

\* defer ioutil.WriteFile(glesAPIPath, glesAPI, fi.Mode().Perm()): it runs when
\* withTouchedGLES returns, whatever result f gave.
RestoreGLES(f, data, perm, result) == WriteFile(f, data, perm)

\* if duration, err := build(ctx); err == nil { r.IncrementalBuildTime = duration.Seconds() }
ClosureTime(ok, duration, old) == IF ok THEN duration ELSE old

\* Mutant of ClosureResult: the closure returns the rebuild's error.
ClosureResult_Propagates(ok) == IF ok THEN NoErr ELSE "build"

\* the closure run() passes to withTouchedGLES ends with: return nil
ClosureResult(ok) == NoErr

\* return f(): the callback runs on the perturbed file, the deferred write
\* restores it, and f's result is returned. cb = "build" is run()'s closure.
TouchCall ==
    /\ pc = "touchCall"
    /\ pc' = "touchRet"
    /\ IF cb = "build"
       THEN /\ nBuilds' = nBuilds + 1
            /\ \E ok \in BOOLEAN, duration \in Durations :
                 /\ Event(IF ok THEN "rebuildOK" ELSE "rebuildFailed")
                 /\ r' = [r EXCEPT !.IncrementalBuildTime =
                                       ClosureTime(ok, duration, r.IncrementalBuildTime)]
                 /\ touchErr' = ClosureResult(ok)
       ELSE /\ touchErr' = IF cb = "ok" THEN NoErr ELSE "callback"
            /\ UNCHANGED <<nBuilds, r, events>>
    /\ gles' = RestoreGLES(gles, glesAPI, Perm(fi), touchErr')
    /\ UNCHANGED <<flags, clean, head, missing, traceFile, err, branch, cls, n, i, res,
                   defers, report, fi, glesAPI, cb, gles0, checkouts, listed, resIdx>>

\* ---------------------------------------------------------------- run, continued
\* Mutant of TouchSkips: the error of withTouchedGLES is swallowed.
TouchSkips_Never(e) == FALSE

\* if err := withTouchedGLES(...); err != nil { continue }
TouchSkips(e) == e # NoErr

TouchRet ==
    /\ pc = "touchRet"
    /\ cb = "build"
    /\ IF TouchSkips(touchErr)
       THEN Continue
       ELSE pc' = "append" /\ n' = n
    /\ UNCHANGED <<flags, clean, head, gles, missing, traceFile, err, branch, cls, i, r,
                   res, defers, report, touchLocals, checkouts, nBuilds, listed, events,
                   resIdx>>

\* res = append(res, r)
AppendRecord ==
    /\ pc = "append"
    /\ res' = Append(res, r)
    /\ resIdx' = Append(resIdx, i)
    /\ Continue
    /\ UNCHANGED <<flags, clean, head, gles, missing, traceFile, err, branch, cls, i, r,
                   defers, report, touchLocals, checkouts, nBuilds, listed, events>>

RECURSIVE Rows(_)
Rows(recs) == IF recs = <<>> THEN <<>> ELSE <<Row(Head(recs))>> \o Rows(Tail(recs))

\* the separator line, defer w.Flush(), the header and one row per record; return nil
Report ==
    /\ pc = "report"
    /\ stdout' = Append(stdout, "-----------------------")
    /\ wbuf' = <<Header>> \o Rows(res)
    /\ defers' = <<[op |-> "Flush", arg |-> HeadRef]>> \o defers
    /\ Return(NoErr)
    /\ UNCHANGED <<flags, clean, head, gles, missing, traceFile, branch, cls, n, i, r,
                   res, touchLocals, checkouts, nBuilds, listed, events, resIdx>>

\* run() returns: the deferred calls run, last registered first.
RunDefer ==
    /\ pc = "exit"
    /\ IF defers = <<>>
       THEN pc' = "done" /\ UNCHANGED <<defers, stdout, traceFile, checkouts, head, gles>>
       ELSE LET d == Head(defers) IN
            /\ defers' = Tail(defers)
            /\ pc' = pc
            /\ stdout' = IF d.op = "Flush" THEN stdout \o wbuf ELSE stdout
            /\ traceFile' = IF d.op = "Remove" THEN FALSE ELSE traceFile
            /\ IF d.op = "CheckoutBranch"
               THEN /\ checkouts' = Append(checkouts, d.arg)
                    /\ head' = d.arg
                    /\ gles' = [gles EXCEPT !.content = ContentAt(d.arg)]
               ELSE UNCHANGED <<checkouts, head, gles>>
    /\ UNCHANGED <<flags, clean, missing, err, branch, cls, n, i, r, res, wbuf,
                   touchLocals, nBuilds, listed, events, resIdx>>

Next ==
    \/ GitNew
    \/ Status
    \/ CurrentBranch
    \/ LogFrom
    \/ LoopHead
    \/ Checkout
    \/ Build
    \/ Sizes
    \/ Trace
    \/ CaptureStats
    \/ Inc
    \/ TouchStat
    \/ TouchRead
    \/ TouchWrite
    \/ TouchCall
    \/ TouchRet
    \/ AppendRecord
    \/ Report
    \/ RunDefer

Spec == Init /\ [][Next]_vars

\* ---------------------------------------------------------------- withTouchedGLES alone
\* withTouchedGLES applied to any file content and mode, with run()'s closure
\* or a callback that succeeds or fails.
RECURSIVE SeqsUpTo(_, _)
SeqsUpTo(S, k) ==
    IF k = 0 THEN {<<>>}
    ELSE LET shorter == SeqsUpTo(S, k - 1)
         IN shorter \cup {Append(q, x) : q \in shorter, x \in S}

InitTouch ==
    /\ InitCommon
    /\ incBuild = TRUE
    /\ pkg = ""
    /\ atSHA = HeadRef
    /\ count = 1
    /\ clean = TRUE
    /\ gles \in [content : SeqsUpTo(Lines, MaxLines), mode : Modes]
    /\ gles0 = gles
    /\ cb \in {"build", "ok", "fail"}
    /\ pc = "touchStat"

NextTouch ==
    \/ TouchStat
    \/ TouchRead
    \/ TouchWrite
    \/ TouchCall

SpecTouch == InitTouch /\ [][NextTouch]_vars

\* ---------------------------------------------------------------- properties
Range(q) == {q[k] : k \in DOMAIN q}
Happened(k, what) == <<k, what>> \in events
Indices == 0..(Len(cls) - 1)
RECURSIVE Reverse(_)
Reverse(q) == IF q = <<>> THEN <<>> ELSE Append(Reverse(Tail(q)), Head(q))
BranchCheckouts == {k \in DOMAIN checkouts : checkouts[k][1] = "branch"}
RevisionCheckouts == SelectSeq(checkouts, LAMBDA c : c[1] = "sha")
RecordOf(k) == {res[j] : j \in {x \in DOMAIN resIdx : resIdx[x] = k}}
Recorded(k) == RecordOf(k) # {}
InIteration(k) ==
    k = i /\ pc \in {"build", "sizes", "trace", "stats", "inc", "touchStat", "touchRead",
                     "touchWrite", "touchCall", "touchRet", "append"}
Perturbed == gles.content # ContentAt(head)
TypeOK == Len(res) = Len(resIdx) /\ \A j \in DOMAIN res : res[j].SHA = Short(cls[resIdx[j] + 1])

\* C1: once run() has passed the cleanliness check and read the current branch,
\* the original branch is checked out exactly once, as the last checkout of the
\* run, whatever fails or aborts the run afterwards; no branch checkout is
\* issued before run() returns, and when run() is done the working tree is on
\* the branch it was on at start.
C1_BranchRestoredOnce ==
    /\ Cardinality(BranchCheckouts) <= 1
    /\ BranchCheckouts # {} => pc \in {"exit", "done"} /\ branch # HeadRef
    /\ (pc = "done" /\ branch # HeadRef) =>
          /\ BranchCheckouts = {Len(checkouts)}
          /\ checkouts[Len(checkouts)] = head0
          /\ head = head0

C1_Witness ==
    /\ pc = "done"
    /\ err = "git.Checkout"
    /\ Happened(2, "buildFailed")
    /\ Len(checkouts) = 4
    /\ head = head0

\* C2: a revision whose full build fails gets no record and the loop goes on
\* to the next revision; the result never holds more records than the window
\* has revisions, and with a window of 3 whose second-oldest build is the only
\* failure the result is the records of the oldest and the newest revision.
C2_FailedBuildNoRecord ==
    /\ TypeOK
    /\ \A k \in Indices : Happened(k, "buildFailed") => ~Recorded(k)
    /\ Len(res) <= Len(cls) /\ Len(cls) <= count
    /\ Happened(i, "buildFailed") /\ ~Happened(i, "buildOK") => pc \notin {"sizes", "trace",
          "stats", "inc", "touchStat", "touchRead", "touchWrite", "touchCall", "touchRet",
          "append"}
    /\ (/\ pc = "done" /\ err = NoErr /\ Len(cls) = 3
        /\ events \cap {<<k, w>> : k \in Indices,
                                   w \in {"buildFailed", "traceFailed", "perturbFailed"}}
             = {<<1, "buildFailed">>})
       => resIdx = <<2, 0>> /\ res[1].SHA = Short(cls[3]) /\ res[2].SHA = Short(cls[1])

C2_Witness ==
    /\ pc = "done" /\ err = NoErr /\ count = 3 /\ Len(cls) = 3
    /\ Happened(1, "buildFailed")
    /\ resIdx = <<2, 0>>
    /\ Len(res) = 2

\* C3 as claimed: a revision whose perturbation could not start (stat or read
\* of gles.api failed) still has a record once the run is over, with an
\* incremental build time of 0.
C3_AsClaimed ==
    (pc = "done" /\ err = NoErr) =>
        \A k \in Indices : Happened(k, "perturbFailed") =>
            Recorded(k) /\ \A rec \in RecordOf(k) : rec.IncrementalBuildTime = 0

\* C3 amended: when the perturbation cannot start because gles.api cannot be
\* stat'ed or read, withTouchedGLES returns that error with the file untouched
\* and no rebuild run, and run() skips the revision: it gets no record.
C3_PerturbFailureSkips ==
    /\ \A k \in Indices : Happened(k, "perturbFailed") =>
          /\ ~Recorded(k)
          /\ ~Happened(k, "rebuildOK") /\ ~Happened(k, "rebuildFailed")
          /\ InIteration(k) => pc = "touchRet" /\ touchErr \in {"stat", "read"} /\ gles = gles0
    /\ (pc = "touchRet" /\ touchErr \in {"stat", "read"}) => Happened(i, "perturbFailed")

C3_Witness ==
    /\ pc = "done" /\ err = NoErr /\ incBuild
    /\ Len(cls) = 2
    /\ Happened(1, "perturbFailed")
    /\ resIdx = <<0>>

\* C4: with incremental timing on, a revision whose full build succeeded and
\* whose rebuild inside the perturbation cycle failed is still recorded, and
\* its record's incremental build time is 0.
C4_FailedRebuildRecorded ==
    \A k \in Indices : Happened(k, "rebuildFailed") =>
        /\ incBuild /\ Happened(k, "buildOK")
        /\ \/ InIteration(k) /\ pc \in {"touchRet", "append"} /\ touchErr = NoErr
                 /\ r.IncrementalBuildTime = 0
           \/ ~InIteration(k) /\ Recorded(k)
                 /\ \A rec \in RecordOf(k) : rec.IncrementalBuildTime = 0

C4_Witness ==
    /\ pc = "done" /\ err = NoErr
    /\ Happened(0, "rebuildFailed")
    /\ Recorded(0)
    /\ \E j \in DOMAIN res : res[j].IncrementalBuildTime > 0

\* C5: with a workload filter set, a revision whose trace capture fails is
\* dropped although it was built and its artifact sizes were gathered: the
\* failing step goes straight to the next loop iteration, no stats extraction
\* and no rebuild is run for it, and it never gets a record.
C5_StepOnTraceFailure ==
    (pc = "trace" /\ Happened(i, "traceFailed")') =>
        /\ r.FileSizes = [f \in Artifacts |-> IF f \in missing THEN 0 ELSE SizeOf(f)]
        /\ pc' = "loop" /\ n' = n + 1 /\ res' = res /\ err' = err
        /\ nBuilds' = nBuilds /\ ~traceFile'

C5_TraceFailureSkips ==
    /\ [](\A k \in Indices : Happened(k, "traceFailed") =>
             /\ pkg # "" /\ Happened(k, "buildOK")
             /\ ~Recorded(k)
             /\ \A w \in {"traceOK", "statsOK", "statsFailed", "perturbFailed", "rebuildOK",
                          "rebuildFailed"} : ~Happened(k, w)
             /\ ~InIteration(k))
    /\ [][C5_StepOnTraceFailure]_vars

C5_Witness ==
    /\ pc = "done" /\ err = NoErr /\ pkg # ""
    /\ Len(cls) = 3
    /\ Happened(1, "traceFailed")
    /\ resIdx = <<2, 0>>

\* C6: once withTouchedGLES has stat'ed and read gles.api, the file's content
\* and mode when it returns are those it had on entry, whether the callback
\* returned nil or an error.
C6_FileRestored ==
    (pc = "touchRet" /\ touchErr \notin {"stat", "read"}) => gles = gles0

C6_Witness ==
    /\ pc = "touchRet"
    /\ touchErr = "callback"
    /\ Writable(gles.mode)
    /\ glesAPI = gles.content
    /\ gles = gles0
    /\ Len(gles.content) = 1

\* C7 as claimed: when the listing returned as many revisions as -count asked
\* for, a finished run has issued exactly that many revision checkouts, the
\* listed revisions from oldest to newest.
C7_AsClaimed ==
    (pc = "done" /\ listed /\ err # "git.LogFrom" /\ Len(cls) = count) =>
        RevisionCheckouts = [k \in 1..Len(cls) |-> ShaRef(Reverse(cls)[k])]

\* C7 amended: the revision checkouts issued are always the first ones of the
\* listing read from oldest to newest, one per revision, whichever builds,
\* traces or rebuilds fail; a run that no failing revision checkout aborts
\* issues all N of them.
C7_CheckoutsOldestFirst ==
    /\ Len(RevisionCheckouts) <= Len(cls)
    /\ \A k \in DOMAIN RevisionCheckouts :
          RevisionCheckouts[k] = ShaRef(cls[Len(cls) + 1 - k])
    /\ (pc = "done" /\ listed /\ err \notin {"git.LogFrom", "git.Checkout"}) =>
          Len(RevisionCheckouts) = Len(cls)

C7_Witness ==
    /\ pc = "done" /\ err = NoErr
    /\ Len(cls) = 3 /\ count = 3
    /\ Len(RevisionCheckouts) = 3
    /\ RevisionCheckouts[1] = ShaRef(cls[3])
    /\ Happened(1, "buildFailed") /\ Happened(0, "rebuildFailed")

\* C8: with local modifications in the working tree, run() returns an error
\* having done no checkout of a revision or a branch, no build, no revision
\* listing and no report.
C8_DirtyTreeAborts ==
    ~clean =>
        /\ checkouts = <<>> /\ nBuilds = 0 /\ ~listed
        /\ stdout = <<>> /\ wbuf = <<>> /\ res = <<>> /\ defers = <<>>
        /\ head = head0
        /\ pc \in {"new", "status", "exit", "done"}
        /\ pc = "done" => err # NoErr

C8_Witness ==
    ~clean /\ pc = "done" /\ err = "Local changes found" /\ checkouts = <<>>

\* C9 as claimed: a revision whose stats invocation failed has, once the run
\* is over, a record with all three counters 0.
C9_AsClaimed ==
    (pc = "done" /\ err = NoErr) =>
        \A k \in Indices : Happened(k, "statsFailed") =>
            Recorded(k) /\ \A rec \in RecordOf(k) : rec.CaptureStats = ZeroCounts

\* C9 amended: when the stats invocation fails, captureStats returns zero
\* counts and no error, so that step does not skip the revision: it goes on
\* to the incremental stage with all three counters 0 and is recorded with
\* them, unless the perturbation then cannot start, which skips it.
C9_StatsFailureZeroCounts ==
    \A k \in Indices : Happened(k, "statsFailed") =>
        /\ pkg # "" /\ Happened(k, "traceOK")
        /\ \/ InIteration(k) /\ pc \notin {"build", "sizes", "trace", "stats"}
                 /\ r.CaptureStats = ZeroCounts
           \/ ~InIteration(k) /\ Recorded(k)
                 /\ \A rec \in RecordOf(k) : rec.CaptureStats = ZeroCounts
           \/ ~InIteration(k) /\ ~Recorded(k) /\ Happened(k, "perturbFailed")

C9_Witness ==
    /\ pc = "done" /\ err = NoErr
    /\ Happened(0, "statsFailed")
    /\ Recorded(0)
    /\ \E j \in DOMAIN res : res[j].CaptureStats.Frames = 12

\* C10: gles.api holds the committed content of what is checked out whenever
\* a checkout, a full build, the artifact stats or a trace capture is about to
\* run; it differs from it only while the incremental rebuild of the current
\* revision runs, after that revision's full build and, with -pkg set, its
\* trace capture succeeded.
C10_PerturbationNested ==
    /\ (\/ pc \in {"checkout", "build", "sizes", "trace", "stats"}
        \/ pc = "exit" /\ defers # <<>>) => ~Perturbed
    /\ Perturbed =>
          /\ pc = "touchCall" /\ incBuild
          /\ gles.content = ModGlesAPI(ContentAt(head), gles.content[Len(gles.content)][2])
          /\ Happened(i, "buildOK")
          /\ pkg # "" => Happened(i, "traceOK")
          /\ ~Happened(i, "rebuildOK") /\ ~Happened(i, "rebuildFailed")

C10_Witness ==
    /\ pc = "touchCall" /\ Perturbed /\ pkg # ""
    /\ n = 1
    /\ Happened(i, "traceOK")
====
